---- MODULE Spec2Model ----
(***************************************************************************)
(* A model of squid (fjclark/squid): the slurm queue reader SlurmQueue     *)
(* (src/squid/slurm.py) and the handlers of the terminal application       *)
(* SquidApp (src/squid/app.py).                                            *)
(*                                                                         *)
(* A Python str is modelled as a sequence of one-character strings, so     *)
(* that str.split, str.isdigit and re.search are computed character by     *)
(* character.  An exception is modelled by the variable err, which holds   *)
(* the name of the exception the last call raised ("none" when it          *)
(* returned); the objects stay usable after an exception, as they do for   *)
(* any caller that catches it.                                             *)
(***************************************************************************)
EXTENDS Integers, Sequences, FiniteSets, TLC

VARIABLES
    jobs,                  \* SlurmQueue.jobs: the stored snapshot
    out,                   \* the squeue output the last update read (or is to read)
    err,                   \* exception raised by the last operation, or "none"
    calls,                 \* external commands run by the last operation, in order
    passed,                \* arguments handed to kill_job/hold_job/release_job by it
                           \* (before a direct call: the argument it will get)
    op,                    \* name of the last operation
    in_jobs,               \* argument jobs of the direct filter_jobs call
    in_attribute,          \* argument attribute of the direct filter_jobs call
    in_regex,              \* argument regex of the direct filter_jobs call
    ret,                   \* value returned by the direct filter_jobs call
    job_filter_attribute,  \* SquidApp.job_filter_attribute
    job_filter_regex,      \* SquidApp.job_filter_regex
    display,               \* items of the scroll menu SquidApp.job_display
    selected,              \* index (0-based) of the selected item of job_display
    reported               \* what the last handler reported back to its caller

vars == <<jobs, out, err, calls, passed, op, in_jobs, in_attribute, in_regex,
          ret, job_filter_attribute, job_filter_regex, display, selected,
          reported>>

queueVars == <<jobs, out, err>>
callVars == <<calls, passed>>
argVars == <<in_jobs, in_attribute, in_regex, ret>>
appVars == <<job_filter_attribute, job_filter_regex, display, selected, reported>>

-----------------------------------------------------------------------------
(* Bounds of the model.                                                    *)

\* most lines (jobs) in one squeue output
MaxLines == 2
\* most whitespace-separated tokens on one line of squeue output
MaxTokens == 13
\* most external commands that fail within one handler
MaxFailures == 1
\* longest job sequence handed directly to filter_jobs
MaxJobs == 3

-----------------------------------------------------------------------------
(* Strings.                                                                *)

SP == " "
TAB == "\t"
NL == "\n"
Whitespace == {SP, TAB, NL}
Digits == {"0", "1", "2", "3", "4", "5", "6", "7", "8", "9"}

Range(s) == {s[i] : i \in DOMAIN s}

RECURSIVE Concat(_)
\* the concatenation of a sequence of strings
Concat(ss) == IF ss = <<>> THEN <<>> ELSE Head(ss) \o Concat(Tail(ss))

RECURSIVE isdigit_all(_)
isdigit_all(s) == IF s = <<>> THEN TRUE
                  ELSE Head(s) \in Digits /\ isdigit_all(Tail(s))

\* str.isdigit(): non-empty and every character a digit
isdigit(s) == s # <<>> /\ isdigit_all(s)

\* the k-th smallest element of a set of integers
Kth(S, k) == CHOOSE x \in S : Cardinality({y \in S : y < x}) = k - 1

\* str.split(sep) for a one-character sep: the pieces between the
\* occurrences of sep, the empty pieces included
SplitOn(s, sep) ==
    LET cuts == {0} \cup {i \in DOMAIN s : s[i] = sep} \cup {Len(s) + 1}
    IN  [k \in 1..(Cardinality(cuts) - 1) |->
            SubSeq(s, Kth(cuts, k) + 1, Kth(cuts, k + 1) - 1)]

\* str.split(): the maximal runs of non-whitespace characters
split(s) ==
    LET starts == {i \in DOMAIN s : /\ s[i] \notin Whitespace
                                    /\ (i = 1 \/ s[i - 1] \in Whitespace)}
        ends == {i \in DOMAIN s : /\ s[i] \notin Whitespace
                                  /\ (i = Len(s) \/ s[i + 1] \in Whitespace)}
    IN  [k \in 1..Cardinality(starts) |->
            SubSeq(s, Kth(starts, k), Kth(ends, k))]

-----------------------------------------------------------------------------
(* Job records.                                                            *)

\* the fields of the dataclass SlurmJob, in declaration order
Fields == <<"job_id", "name", "partition", "time_used", "submit_time",
            "start_time", "end_time", "state", "array_job_id",
            "array_task_id", "node_list">>

\* SlurmJob(*job_info): the positional constructor
SlurmJob(info) ==
    [job_id |-> info[1], name |-> info[2], partition |-> info[3],
     time_used |-> info[4], submit_time |-> info[5], start_time |-> info[6],
     end_time |-> info[7], state |-> info[8], array_job_id |-> info[9],
     array_task_id |-> info[10], node_list |-> info[11]]

NAMES_TO_JOB_ATTRIBUTES ==
    [n \in {"Name", "Partition", "State", "Time", "Node/Reason", "Submit Time",
            "Start Time", "Job ID", "Max End Time", "Array Job Id",
            "Array Task Id"} |->
        CASE n = "Name" -> "name"
          [] n = "Partition" -> "partition"
          [] n = "State" -> "state"
          [] n = "Time" -> "time_used"
          [] n = "Node/Reason" -> "node_list"
          [] n = "Submit Time" -> "submit_time"
          [] n = "Start Time" -> "start_time"
          [] n = "Job ID" -> "job_id"
          [] n = "Max End Time" -> "end_time"
          [] n = "Array Job Id" -> "array_job_id"
          [] n = "Array Task Id" -> "array_task_id"]

slurm_banner_fake_job ==
    [job_id |-> <<"J", "o", "b", " ", "I", "D">>,
     name |-> <<"N", "a", "m", "e">>,
     partition |-> <<"P", "a", "r", "t", "i", "t", "i", "o", "n">>,
     time_used |-> <<"T", "i", "m", "e">>,
     submit_time |-> <<"S", "u", "b", "m", "i", "t", " ", "T", "i", "m", "e">>,
     start_time |-> <<"S", "t", "a", "r", "t", " ", "T", "i", "m", "e">>,
     end_time |-> <<"E", "n", "d", " ", "T", "i", "m", "e">>,
     state |-> <<"S", "t", "a", "t", "e">>,
     node_list |-> <<"N", "o", "d", "e", "/", "R", "e", "a", "s", "o", "n">>,
     array_job_id |-> <<"A", "r", ".", "J", ".", "I", "d">>,
     array_task_id |-> <<"A", "r", ".", "T", ".", "I", "d">>]

\* the text put in place of a reason of several words
NodesNAvail == <<"N", "o", "d", "e", "s", " ", "N", ".", " ",
                 "A", "v", "a", "i", "l", ".">>

-----------------------------------------------------------------------------
(* re.search, for patterns made of literal characters, ".", a leading or   *)
(* inner "^" and the postfix "*".                                          *)

\* re.compile accepts the pattern: every "*" follows a literal or "."
ValidRegex(p) ==
    \A i \in DOMAIN p :
        p[i] = "*" => (i > 1 /\ p[i - 1] \notin {"*", "^"})

AtomMatches(a, c) == IF a = "." THEN c # NL ELSE a = c

RECURSIVE MatchHere(_, _, _, _)
\* p[i..] matches a prefix of s[pos..]
MatchHere(p, i, s, pos) ==
    IF i > Len(p) THEN TRUE
    ELSE IF p[i] = "^" THEN pos = 1 /\ MatchHere(p, i + 1, s, pos)
    ELSE IF i < Len(p) /\ p[i + 1] = "*"
         THEN \/ MatchHere(p, i + 2, s, pos)
              \/ /\ pos <= Len(s)
                 /\ AtomMatches(p[i], s[pos])
                 /\ MatchHere(p, i, s, pos + 1)
    ELSE /\ pos <= Len(s)
         /\ AtomMatches(p[i], s[pos])
         /\ MatchHere(p, i + 1, s, pos + 1)

\* re.match(p, s) is not None: a match at the start of s only
re_match(p, s) == MatchHere(p, 1, s, 1)

\* re.search(p, s) is not None: a match starting anywhere in s
re_search(p, s) == \E pos \in 1..(Len(s) + 1) : MatchHere(p, 1, s, pos)

-----------------------------------------------------------------------------
(* SlurmQueue.filter_jobs.                                                 *)

FieldNames == Range(Fields)

\* getattr(job, attribute), for an attribute that is a field
getattr(job, attribute) ==
    CASE attribute = "job_id" -> job.job_id
      [] attribute = "name" -> job.name
      [] attribute = "partition" -> job.partition
      [] attribute = "time_used" -> job.time_used
      [] attribute = "submit_time" -> job.submit_time
      [] attribute = "start_time" -> job.start_time
      [] attribute = "end_time" -> job.end_time
      [] attribute = "state" -> job.state
      [] attribute = "array_job_id" -> job.array_job_id
      [] attribute = "array_task_id" -> job.array_task_id
      [] attribute = "node_list" -> job.node_list

RECURSIVE FilterLoop_match(_, _, _, _, _)
\* the loop with re.match (anchored at the start) in place of re.search
FilterLoop_match(js, i, attribute, regex, filtered_jobs) ==
    IF i > Len(js) THEN [ret |-> filtered_jobs, err |-> "none"]
    ELSE IF attribute \notin FieldNames
         THEN [ret |-> <<>>, err |-> "AttributeError"]
    ELSE LET attr == getattr(js[i], attribute) IN
         IF attr = <<>>
         THEN FilterLoop_match(js, i + 1, attribute, regex, filtered_jobs)
         ELSE IF ~ValidRegex(regex)
              THEN [ret |-> <<>>, err |-> "re.error"]
         ELSE IF re_match(regex, attr)
              THEN FilterLoop_match(js, i + 1, attribute, regex,
                                    Append(filtered_jobs, js[i]))
              ELSE FilterLoop_match(js, i + 1, attribute, regex,
                                    filtered_jobs)

RECURSIVE FilterLoop(_, _, _, _, _)
\* the loop of filter_jobs from job i on; filtered_jobs is the list so far
FilterLoop(js, i, attribute, regex, filtered_jobs) ==
    IF i > Len(js) THEN [ret |-> filtered_jobs, err |-> "none"]
    ELSE IF attribute \notin FieldNames
         THEN [ret |-> <<>>, err |-> "AttributeError"]
    ELSE LET attr == getattr(js[i], attribute) IN
         IF attr = <<>>
         THEN FilterLoop(js, i + 1, attribute, regex, filtered_jobs)
         ELSE IF ~ValidRegex(regex)
              THEN [ret |-> <<>>, err |-> "re.error"]
         ELSE IF re_search(regex, attr)
              THEN FilterLoop(js, i + 1, attribute, regex,
                              Append(filtered_jobs, js[i]))
              ELSE FilterLoop(js, i + 1, attribute, regex, filtered_jobs)

\* an early return that needs both the attribute and the regex empty
NoFilter_both(attribute, regex) == attribute = "" /\ regex = <<>>

\* the early return of filter_jobs: an empty attribute or an empty regex
NoFilter(attribute, regex) == attribute = "" \/ regex = <<>>

\* filter_jobs with getattr(job, attribute, None): an unknown attribute
\* matches no job
filter_jobs_default(js, attribute, regex) ==
    IF NoFilter(attribute, regex) THEN [ret |-> js, err |-> "none"]
    ELSE IF attribute \notin FieldNames THEN [ret |-> <<>>, err |-> "none"]
    ELSE FilterLoop(js, 1, attribute, regex, <<>>)

\* filter_jobs(jobs, attribute, regex): the returned list, or the exception
filter_jobs(js, attribute, regex) ==
    IF NoFilter(attribute, regex) THEN [ret |-> js, err |-> "none"]
    ELSE FilterLoop(js, 1, attribute, regex, <<>>)

-----------------------------------------------------------------------------
(* The squeue outputs the model draws from.  Line j of an output is the    *)
(* line of job j; its shape says how many tokens it has and how they are   *)
(* padded.                                                                 *)

IdPool == << <<"1">>, <<"2", "0">>, <<"0">>, <<"7">> >>
NamePool == << <<"a">>, <<"b">>, <<"b", "a">> >>
StatePool == << <<"R">>, <<"P", "D">> >>

Pick(pool, j) == pool[((j - 1) % Len(pool)) + 1]

\* token i of the line of job j
Token(j, i) ==
    CASE i = 1 -> Pick(IdPool, j)
      [] i = 2 -> Pick(NamePool, j)
      [] i = 3 -> <<"p">>
      [] i = 4 -> <<"t">>
      [] i = 5 -> <<"s">>
      [] i = 6 -> <<"b">>
      [] i = 7 -> <<"e">>
      [] i = 8 -> Pick(StatePool, j)
      [] i = 9 -> Pick(IdPool, j)
      [] i = 10 -> <<"k">>
      [] i = 11 -> <<"n", "1">>
      [] i = 12 -> <<"R", "s">>
      [] OTHER -> <<"w">>

\* how a line is padded: before the first token, between two tokens, after
\* the last token
Styles == << [lead |-> <<>>, sep |-> <<SP>>, trail |-> <<>>],
             [lead |-> <<>>, sep |-> <<SP, SP>>, trail |-> <<SP>>],
             [lead |-> <<SP>>, sep |-> <<TAB>>, trail |-> <<>>] >>

RECURSIVE JoinTokens(_, _, _, _)
\* tokens i..n of job j, each followed by sep except the last
JoinTokens(j, i, n, sep) ==
    IF i > n THEN <<>>
    ELSE IF i = n THEN Token(j, i)
    ELSE Token(j, i) \o sep \o JoinTokens(j, i + 1, n, sep)

\* the line of job j with n tokens in style st, without its newline; with no
\* token the line is the trailing padding alone
Line(j, n, st) ==
    IF n = 0 THEN Styles[st].trail
    ELSE Styles[st].lead \o JoinTokens(j, 1, n, Styles[st].sep)
             \o Styles[st].trail

\* the text squeue prints for the shapes sh: every line ends with a newline
Text(sh) ==
    Concat([j \in DOMAIN sh |-> Line(j, sh[j].n, sh[j].st) \o <<NL>>])

ShapeSeqs(S) == UNION {[1..k -> S] : k \in 0..MaxLines}

\* the application runs: well-spaced lines of 11 tokens, and possibly a last
\* line that lacks a token
AppShapes == [n : {10, 11}, st : {1}]
AppShapeSeqs ==
    {sh \in ShapeSeqs(AppShapes) : \A j \in DOMAIN sh : j < Len(sh) => sh[j].n = 11}

\* the construction runs: lines of no token, of 10 to MaxTokens tokens, in
\* every style
ParseShapes == [n : {0} \cup 10..MaxTokens, st : DOMAIN Styles]
ParseShapeSeqs == ShapeSeqs(ParseShapes)

\* the result of the subprocess call of squeue
Ok(sh) == [status |-> "ok", shapes |-> sh]
Failed(kind) == [status |-> kind, shapes |-> <<>>]

\* squeue exits non-zero (CalledProcessError) or cannot be run (OSError)
QueryFailures == {Failed("CalledProcessError"), Failed("OSError")}

AppOutputs == {Ok(sh) : sh \in AppShapeSeqs}
ParseOutputs == {Ok(sh) : sh \in ParseShapeSeqs}

\* no squeue call was made
NoOutput == Failed("none")

-----------------------------------------------------------------------------
(* SlurmQueue.update.                                                      *)

\* queue_info.split("\n"), and line.split() of each line
SplitLines(text) ==
    LET lines == SplitOn(text, NL)
    IN  [i \in DOMAIN lines |-> [line |-> lines[i], job_info |-> split(lines[i])]]

\* SplitLines of the outputs of the application runs, computed once
QueueLines == [sh \in AppShapeSeqs |-> SplitLines(Text(sh))] @@ <<>>

\* the lines and tokens of the text squeue prints for the shapes sh
LinesOf(sh) ==
    IF sh \in AppShapeSeqs THEN QueueLines[sh] ELSE SplitLines(Text(sh))

\* the length corrections with pop(10) in place of pop(11)
JobInfo_pop10(tokens) ==
    LET popped == IF Len(tokens) = 12
                  THEN Append(SubSeq(tokens, 1, 10), tokens[12])
                  ELSE tokens
    IN  IF Len(popped) > 12
        THEN Append(SubSeq(popped, 1, 10), NodesNAvail)
        ELSE popped

\* the token list of one line after the two length corrections
JobInfo(tokens) ==
    LET popped == IF Len(tokens) = 12 THEN SubSeq(tokens, 1, 11) ELSE tokens
    IN  IF Len(popped) > 12
        THEN Append(SubSeq(popped, 1, 10), NodesNAvail)
        ELSE popped

RECURSIVE ParseLines(_, _, _)
\* the loop over the lines of the output from line i on; acc is self.jobs.
\* breakpoint() before the raise stops in the debugger and changes no state
ParseLines(lines, i, acc) ==
    IF i > Len(lines) THEN [jobs |-> acc, err |-> "none"]
    ELSE IF lines[i].line = <<>> THEN ParseLines(lines, i + 1, acc)
    ELSE LET job_info == JobInfo(lines[i].job_info) IN
         IF Len(job_info) # 11
         THEN [jobs |-> acc, err |-> "SlurmQueueReadError"]
         ELSE ParseLines(lines, i + 1, Append(acc, SlurmJob(job_info)))

\* an update that keeps the old list and appends to it
ResetJobs_keep(self_jobs) == self_jobs

\* self.jobs = [] at the start of update
ResetJobs(self_jobs) == <<>>

\* update(attribute, regex) when the squeue call gives q: the new self.jobs
\* and the exception raised, if any
update(self_jobs, attribute, regex, q) ==
    IF q.status # "ok" THEN [jobs |-> ResetJobs(self_jobs), err |-> q.status]
    ELSE LET parsed == ParseLines(LinesOf(q.shapes), 1,
                                  ResetJobs(self_jobs))
         IN  IF parsed.err # "none" THEN parsed
             ELSE LET f == filter_jobs(parsed.jobs, attribute, regex) IN
                  IF f.err # "none"
                  THEN [jobs |-> parsed.jobs, err |-> f.err]
                  ELSE [jobs |-> f.ret, err |-> "none"]

-----------------------------------------------------------------------------
(* SlurmQueue.kill_job, hold_job, release_job.                             *)

\* job_display.get() of an empty menu
None == [none |-> TRUE]

\* how a subprocess.run of scancel/scontrol can end: exit status 0, a
\* non-zero exit status (no exception without check=True), or the command
\* cannot be started (subprocess.run raises OSError)
RunOutcomes == {"ok", "nonzero", "OSError"}

\* a guard that only asks for a non-empty job id
IsRealJob_nonempty(job) == job.job_id # <<>>

\* the guard of kill_job, hold_job and release_job
IsRealJob(job) == isdigit(job.job_id)

\* the body shared by kill_job, hold_job and release_job: cmd is the command
\* line before the job id
JobCommand(cmd, job, outcome) ==
    IF job = None THEN [calls |-> <<>>, err |-> "AttributeError"]
    ELSE IF IsRealJob(job)
         THEN [calls |-> <<[cmd |-> cmd, job_id |-> job.job_id,
                            outcome |-> outcome]>>,
               err |-> IF outcome = "OSError" THEN "OSError" ELSE "none"]
         ELSE [calls |-> <<>>, err |-> "none"]

kill_job(job, outcome) == JobCommand("scancel", job, outcome)
hold_job(job, outcome) == JobCommand("scontrol hold", job, outcome)
release_job(job, outcome) == JobCommand("scontrol release", job, outcome)

-----------------------------------------------------------------------------
(* SquidApp.                                                               *)

\* job_display.get(): the selected item, None for an empty menu
Get(items, sel) == IF items = <<>> THEN None ELSE items[sel + 1]

\* an update_jobs that puts the banner into the queue's own list
update_jobs_banner(self_jobs, attribute, regex, q) ==
    LET r == update(self_jobs, attribute, regex, q) IN
    IF r.err # "none"
    THEN [jobs |-> r.jobs, display |-> <<>>, err |-> r.err]
    ELSE [jobs |-> <<slurm_banner_fake_job>> \o r.jobs,
          display |-> <<slurm_banner_fake_job>> \o r.jobs,
          err |-> "none"]

\* update_jobs when squeue gives q: the menu is cleared, the queue updated
\* and the banner and the jobs added; an exception of update leaves the
\* menu empty
update_jobs(self_jobs, attribute, regex, q) ==
    LET r == update(self_jobs, attribute, regex, q) IN
    IF r.err # "none"
    THEN [jobs |-> r.jobs, display |-> <<>>, err |-> r.err]
    ELSE [jobs |-> r.jobs, display |-> <<slurm_banner_fake_job>> \o r.jobs,
          err |-> "none"]

RECURSIVE BulkLoop(_, _, _, _, _)
\* "for job in self.slurm_queue.jobs: <cmd>(job)" from job i on; outcomes[i]
\* is how the command of job i ends if it is run; an exception ends the loop
BulkLoop(cmd, js, outcomes, i, acc) ==
    IF i > Len(js) THEN acc
    ELSE LET c == JobCommand(cmd, js[i], outcomes[i])
             next == [calls |-> acc.calls \o c.calls,
                      passed |-> Append(acc.passed, js[i]),
                      err |-> c.err]
         IN  IF c.err # "none" THEN next
             ELSE BulkLoop(cmd, js, outcomes, i + 1, next)

NoCommands == [calls |-> <<>>, passed |-> <<>>, err |-> "none"]

\* the ways the commands of n jobs can end, at most MaxFailures of them badly
OutcomeSeqs(n) ==
    {f \in [1..n -> RunOutcomes] :
        Cardinality({i \in 1..n : f[i] # "ok"}) <= MaxFailures}

\* what the user can pick in the menu "Filter By" and type in "Filter Regex"
FilterNames == {"Name", "Job ID"}
FilterTexts == {<<>>, <<"a">>, <<"*">>}

Queries == AppOutputs \cup QueryFailures

\* the end of every handler: after the commands c, update_jobs() unless a
\* command raised; the handler returns None, so nothing is reported
Finish(handler, c, attribute, regex, q) ==
    /\ op' = handler
    /\ calls' = c.calls
    /\ passed' = c.passed
    /\ reported' = <<>>
    /\ job_filter_attribute' = attribute
    /\ job_filter_regex' = regex
    /\ IF c.err # "none"
       THEN /\ err' = c.err
            /\ out' = NoOutput
            /\ UNCHANGED <<jobs, display, selected>>
       ELSE LET r == update_jobs(jobs, attribute, regex, q) IN
            /\ jobs' = r.jobs
            /\ display' = r.display
            /\ selected' = 0
            /\ err' = r.err
            /\ out' = q
    /\ UNCHANGED argVars

\* the button "Refresh Display" and the key u
UpdateJobs ==
    \E q \in Queries :
        Finish("update_jobs", NoCommands, job_filter_attribute,
               job_filter_regex, q)

SelectedCommand(c) == [calls |-> c.calls,
                       passed |-> <<Get(display, selected)>>,
                       err |-> c.err]

\* the key k
KillJob ==
    \E q \in Queries, o \in RunOutcomes :
        Finish("kill_job",
               SelectedCommand(kill_job(Get(display, selected), o)),
               job_filter_attribute, job_filter_regex, q)

\* the key h
HoldJob ==
    \E q \in Queries, o \in RunOutcomes :
        Finish("hold_job",
               SelectedCommand(hold_job(Get(display, selected), o)),
               job_filter_attribute, job_filter_regex, q)

\* the key r
ReleaseJob ==
    \E q \in Queries, o \in RunOutcomes :
        Finish("release_job",
               SelectedCommand(release_job(Get(display, selected), o)),
               job_filter_attribute, job_filter_regex, q)

Bulk(handler, cmd) ==
    \E q \in Queries, os \in OutcomeSeqs(Len(jobs)) :
        Finish(handler, BulkLoop(cmd, jobs, os, 1, NoCommands),
               job_filter_attribute, job_filter_regex, q)

\* the button "Kill Selected"
KillAllJobs == Bulk("kill_all_jobs", "scancel")

\* the button "Hold Selected"
HoldAllJobs == Bulk("hold_all_jobs", "scontrol hold")

\* the button "Release Selected"
ReleaseAllJobs == Bulk("release_all_jobs", "scontrol release")

\* Enter in "Filter Regex": set_filter_attribute() (which runs update_jobs
\* with the new attribute and the old regex), then the new regex and a
\* second update_jobs; an exception of the first update_jobs ends the handler
SetFilterRegex ==
    \E name \in FilterNames, text \in FilterTexts :
        LET attribute == NAMES_TO_JOB_ATTRIBUTES[name] IN
        \/ \E q1 \in Queries :
             /\ update_jobs(jobs, attribute, job_filter_regex, q1).err # "none"
             /\ Finish("set_filter_regex", NoCommands, attribute,
                       job_filter_regex, q1)
        \/ /\ \E q1 \in Queries :
                update_jobs(jobs, attribute, job_filter_regex, q1).err = "none"
           /\ \E q2 \in Queries :
                Finish("set_filter_regex", NoCommands, attribute, text, q2)

\* the keys Down and Up in the menu of jobs
ScrollDown ==
    /\ selected + 1 < Len(display)
    /\ selected' = selected + 1
    /\ UNCHANGED <<queueVars, callVars, argVars, op, job_filter_attribute,
                   job_filter_regex, display, reported>>

ScrollUp ==
    /\ selected > 0
    /\ selected' = selected - 1
    /\ UNCHANGED <<queueVars, callVars, argVars, op, job_filter_attribute,
                   job_filter_regex, display, reported>>

\* main(): SquidApp(root), whose SlurmQueue() reads the queue (output q0)
\* unfiltered, then s.update_jobs() (output q) with the filter ("name", "");
\* root.start() is reached when neither raised
Init ==
    /\ \E q0 \in AppOutputs, q \in AppOutputs :
         LET constructed == update(<<>>, "", <<>>, q0)
             r == update_jobs(constructed.jobs, "name", <<>>, q)
         IN  /\ constructed.err = "none"
             /\ r.err = "none"
             /\ jobs = r.jobs
             /\ display = r.display
             /\ out = q
    /\ err = "none"
    /\ op = "update_jobs"
    /\ calls = <<>>
    /\ passed = <<>>
    /\ reported = <<>>
    /\ job_filter_attribute = "name"
    /\ job_filter_regex = <<>>
    /\ selected = 0
    /\ in_jobs = <<>>
    /\ in_attribute = ""
    /\ in_regex = <<>>
    /\ ret = <<>>

Next ==
    \/ UpdateJobs
    \/ KillJob
    \/ HoldJob
    \/ ReleaseJob
    \/ KillAllJobs
    \/ HoldAllJobs
    \/ ReleaseAllJobs
    \/ SetFilterRegex
    \/ ScrollDown
    \/ ScrollUp

Spec == Init /\ [][Next]_vars

-----------------------------------------------------------------------------
(* The construction of a SlurmQueue: __init__ sets self.jobs = [] and      *)
(* calls update() with its default arguments.                              *)

InitConstruct ==
    /\ jobs = <<>>
    /\ out \in ParseOutputs \cup QueryFailures
    /\ err = "none"
    /\ op = "__init__"
    /\ calls = <<>>
    /\ passed = <<>>
    /\ reported = <<>>
    /\ job_filter_attribute = ""
    /\ job_filter_regex = <<>>
    /\ display = <<>>
    /\ selected = 0
    /\ in_jobs = <<>>
    /\ in_attribute = ""
    /\ in_regex = <<>>
    /\ ret = <<>>

\* self.update() of __init__, reading the output out
Construct ==
    /\ op = "__init__"
    /\ LET r == update(jobs, "", <<>>, out) IN
       /\ jobs' = r.jobs
       /\ err' = r.err
    /\ op' = "update"
    /\ UNCHANGED <<out, callVars, argVars, appVars>>

NextConstruct == Construct

SpecConstruct == InitConstruct /\ [][NextConstruct]_vars

-----------------------------------------------------------------------------
(* Direct calls of filter_jobs, kill_job, hold_job and release_job on      *)
(* arguments drawn from pools.                                             *)

\* a job record with the given id and name
MakeJob(id, name) ==
    SlurmJob(<<id, name, <<"p">>, <<"t">>, <<"s">>, <<"b">>, <<"e">>, <<"R">>,
               id, <<"k">>, <<"n", "1">>>>)

FilterPool == {MakeJob(<<"7">>, <<"a">>), MakeJob(<<"0">>, <<"b">>),
               MakeJob(<<"1", "0">>, <<"b", "a">>), MakeJob(<<"1", "a">>, <<>>),
               slurm_banner_fake_job}
FilterJobSeqs == UNION {[1..k -> FilterPool] : k \in 0..MaxJobs}
FilterAttributes == {"", "name", "job_id", "node_list", "colour"}
FilterPatterns == {<<>>, <<"a">>, <<"^", "b">>, <<"1", ".">>, <<"b", "*", "a">>,
                   <<"*">>}

CommandIds == {<<>>, <<"0">>, <<"7">>, <<"1", "0">>, <<"0", "0">>, <<"0", "7">>,
               <<"1", "a">>, <<"a", "1">>, <<"-", "1">>, <<"1", ".", "5">>,
               <<"1", " ">>}
CommandJobs == {MakeJob(id, <<"a">>) : id \in CommandIds}
                   \cup {slurm_banner_fake_job}

InitCalls ==
    /\ \/ /\ in_jobs \in FilterJobSeqs
          /\ in_attribute \in FilterAttributes
          /\ in_regex \in FilterPatterns
          /\ passed = <<>>
       \/ /\ in_jobs = <<>>
          /\ in_attribute = ""
          /\ in_regex = <<>>
          /\ \E job \in CommandJobs : passed = <<job>>
    /\ op = "call"
    /\ ret = <<>>
    /\ err = "none"
    /\ calls = <<>>
    /\ jobs = <<>>
    /\ out = NoOutput
    /\ reported = <<>>
    /\ job_filter_attribute = ""
    /\ job_filter_regex = <<>>
    /\ display = <<>>
    /\ selected = 0

CallFilterJobs ==
    /\ op = "call"
    /\ passed = <<>>
    /\ LET r == filter_jobs(in_jobs, in_attribute, in_regex) IN
       /\ ret' = r.ret
       /\ err' = r.err
    /\ op' = "filter_jobs"
    /\ UNCHANGED <<jobs, out, callVars, in_jobs, in_attribute, in_regex, appVars>>

CallCommand(name, c) ==
    /\ op = "call"
    /\ passed # <<>>
    /\ calls' = c.calls
    /\ err' = c.err
    /\ op' = name
    /\ UNCHANGED <<jobs, out, passed, argVars, appVars>>

CallKillJob ==
    \E o \in RunOutcomes : CallCommand("kill_job", kill_job(passed[1], o))

CallHoldJob ==
    \E o \in RunOutcomes : CallCommand("hold_job", hold_job(passed[1], o))

CallReleaseJob ==
    \E o \in RunOutcomes : CallCommand("release_job", release_job(passed[1], o))

NextCalls ==
    \/ CallFilterJobs
    \/ CallKillJob
    \/ CallHoldJob
    \/ CallReleaseJob

SpecCalls == InitCalls /\ [][NextCalls]_vars

-----------------------------------------------------------------------------
(* What the claims speak of.                                               *)

\* the squeue call of the last update failed
QueryFailed(q) == q.status \in {"CalledProcessError", "OSError"}

\* the record a line of job j with n >= 11 tokens stands for: tokens 1..10,
\* then token 11, or the fixed text when the line has more than 12 tokens
ExpectedJob(j, n) ==
    SlurmJob([i \in 1..11 |->
                 IF i = 11 /\ n > 12 THEN NodesNAvail ELSE Token(j, i)])

\* the line of shape sh[j] is the empty string
BlankLine(sh, j) == Line(j, sh[j].n, sh[j].st) = <<>>

\* the records of the lines of 11 tokens or more, in line order
ExpectedJobs(sh) ==
    LET idx == SelectSeq([j \in DOMAIN sh |-> j], LAMBDA j : sh[j].n >= 11)
    IN  [k \in DOMAIN idx |-> ExpectedJob(idx[k], sh[idx[k]].n)]

\* the job passes the filter (attribute, regex)
PassesFilter(job, attribute, regex) ==
    \/ attribute = ""
    \/ regex = <<>>
    \/ /\ getattr(job, attribute) # <<>>
       /\ re_search(regex, getattr(job, attribute))

\* a non-empty string of digits
DigitString(s) == s # <<>> /\ \A i \in DOMAIN s : s[i] \in Digits

\* a string of digits that denotes a positive integer
PositiveIntegerString(s) == DigitString(s) /\ \E i \in DOMAIN s : s[i] # "0"

SingleOps == {"kill_job", "hold_job", "release_job"}
BulkOps == {"kill_all_jobs", "hold_all_jobs", "release_all_jobs"}

CommandOf(name) ==
    CASE name \in {"kill_job", "kill_all_jobs"} -> "scancel"
      [] name \in {"hold_job", "hold_all_jobs"} -> "scontrol hold"
      [] name \in {"release_job", "release_all_jobs"} -> "scontrol release"

\* the job ids of the commands that did not end well
FailedIds(cs) ==
    LET bad == SelectSeq(cs, LAMBDA c : c.outcome # "ok")
    IN  [k \in DOMAIN bad |-> bad[k].job_id]

-----------------------------------------------------------------------------
(* The claims.                                                             *)

\* C1 (as claimed): when the squeue call of a refresh fails, the refresh
\* raises and the stored snapshot is still the one from before the refresh.
C1_SnapshotKeptOnQueryFailure ==
    [][QueryFailed(out') => (err' # "none" /\ jobs' = jobs)]_vars

\* C2 (as claimed): when a line has fewer than 11 tokens the refresh raises
\* SlurmQueueReadError and no record parsed from the earlier lines of that
\* output shows in the stored snapshot, which stays as it was.
C2_NoPartialSnapshot ==
    [][(err' = "SlurmQueueReadError") =>
          \/ jobs' = jobs
          \/ \A i \in DOMAIN jobs' :
                jobs'[i] \notin Range(ExpectedJobs(out'.shapes))]_vars

\* C3 (as claimed): kill_job, hold_job and release_job run no command when the
\* job id is not a positive-integer string, and exactly one command with that
\* id otherwise.
C3_PositiveIntegerGuard ==
    (op \in SingleOps /\ Len(passed) = 1) =>
        IF PositiveIntegerString(passed[1].job_id)
        THEN /\ Len(calls) = 1
             /\ calls[1].job_id = passed[1].job_id
             /\ calls[1].cmd = CommandOf(op)
        ELSE calls = <<>>

\* C3 (amended): kill_job, hold_job and release_job run no command when the
\* job id is not a non-empty string of digits (so none for "Job ID"), and
\* exactly one command with that id otherwise (also for "0" and "00").
C3_DigitGuard ==
    (op \in SingleOps /\ Len(passed) = 1) =>
        IF DigitString(passed[1].job_id)
        THEN /\ Len(calls) = 1
             /\ calls[1].job_id = passed[1].job_id
             /\ calls[1].cmd = CommandOf(op)
        ELSE calls = <<>>

\* C3 witness: kill_job was called on the banner and ran nothing.
C3_Witness ==
    /\ op = "kill_job"
    /\ passed = <<slurm_banner_fake_job>>
    /\ calls = <<>>
    /\ err = "none"

\* C4 (as claimed): a bulk handler hands every job of the snapshot, in order,
\* to the single-job operation, also after a command failed, and reports
\* exactly the jobs whose command failed.
C4_BulkReportsFailures ==
    [][(KillAllJobs \/ HoldAllJobs \/ ReleaseAllJobs) =>
          (passed' = jobs /\ reported' = FailedIds(calls'))]_vars

\* C5: when every non-empty line of the output has 11 tokens or more, the
\* parser gives one record per such line, in line order, made of tokens 1..11
\* (11 or 12 tokens) or of tokens 1..10 and the fixed text (more than 12).
C5_ParsedRecords ==
    (/\ op = "update"
     /\ out.status = "ok"
     /\ \A j \in DOMAIN out.shapes :
           BlankLine(out.shapes, j) \/ out.shapes[j].n >= 11)
        => (err = "none" /\ jobs = ExpectedJobs(out.shapes))

\* C5 witness: an output with a line of 12 tokens and a line of more than 12
\* tokens was parsed into two records.
C5_Witness ==
    /\ op = "update"
    /\ err = "none"
    /\ Len(jobs) = 2
    /\ \E j \in DOMAIN out.shapes : out.shapes[j].n = 12
    /\ \E j \in DOMAIN out.shapes : out.shapes[j].n > 12

\* C6: filter_jobs with an empty attribute or an empty regex returns its
\* input sequence, all elements in their order, whatever the other argument.
C6_IdentityFilter ==
    (op = "filter_jobs" /\ (in_attribute = "" \/ in_regex = <<>>))
        => (err = "none" /\ ret = in_jobs)

\* C6 witness: filter_jobs with an empty attribute and a non-empty regex
\* returned a sequence of two jobs or more.
C6_Witness ==
    /\ op = "filter_jobs"
    /\ in_attribute = ""
    /\ in_regex # <<>>
    /\ Len(in_jobs) >= 2
    /\ ret = in_jobs

\* C7: with a field as attribute and a non-empty regex (one that compiles),
\* filter_jobs returns the subsequence of the jobs whose value of the field is
\* non-empty and has a match of the regex somewhere, in their order.
C7_FilterSubsequence ==
    (/\ op = "filter_jobs"
     /\ in_attribute \in FieldNames
     /\ in_regex # <<>>
     /\ ValidRegex(in_regex))
        => /\ err = "none"
           /\ ret = SelectSeq(in_jobs,
                     LAMBDA job : PassesFilter(job, in_attribute, in_regex))

\* C7 witness: a filter by name kept a job whose name matches in the middle
\* only and dropped another job.
C7_Witness ==
    /\ op = "filter_jobs"
    /\ in_attribute = "name"
    /\ in_regex = <<"a">>
    /\ \E i \in DOMAIN ret : ret[i].name = <<"b", "a">>
    /\ Len(ret) < Len(in_jobs)
    /\ Len(ret) >= 2

C9_BannerNeverPassed ==
    /\ slurm_banner_fake_job \notin Range(jobs)
    /\ slurm_banner_fake_job \notin Range(passed)

\* C9 (amended): the banner is never in the stored snapshot, is never handed
\* over by a bulk handler and never reaches an external command; a single-job
\* handler does hand it over when the banner row is selected, and then runs
\* no command.
C9_BannerNeverActedOn ==
    /\ slurm_banner_fake_job \notin Range(jobs)
    /\ op \in BulkOps => slurm_banner_fake_job \notin Range(passed)
    /\ \A i \in DOMAIN calls : calls[i].job_id # slurm_banner_fake_job.job_id
    /\ (op \in SingleOps /\ passed = <<slurm_banner_fake_job>>) => calls = <<>>

\* C9 witness: the key k on the banner row, with jobs in the snapshot.
C9_Witness ==
    /\ op = "kill_job"
    /\ passed = <<slurm_banner_fake_job>>
    /\ calls = <<>>
    /\ err = "none"
    /\ Len(jobs) >= 1

\* C10: after a refresh that did not raise, the stored snapshot is the
\* records of that refresh's output that pass that refresh's filter, in
\* output order; nothing of an earlier snapshot is kept.
C10_SnapshotRebuilt ==
    (err = "none" /\ out.status = "ok")
        => jobs = SelectSeq(ExpectedJobs(out.shapes),
                    LAMBDA job : PassesFilter(job, job_filter_attribute,
                                              job_filter_regex))

\* C10 witness: a bulk handler ran commands and its refresh, under a filter
\* that drops a job of the output, gave a non-empty snapshot.
C10_Witness ==
    /\ op \in BulkOps
    /\ calls # <<>>
    /\ err = "none"
    /\ job_filter_regex # <<>>
    /\ Len(jobs) >= 1
    /\ Len(jobs) < Len(out.shapes)

====
